---- MODULE Spec2Model ----
(***************************************************************************)
(* Verification model of the arbitrary-precision integer BigInt of         *)
(* src/assignments/assignment09/bigint.rs.                                 *)
(*                                                                         *)
(* A BigInt is its carrier: a sequence of u32 words, most significant      *)
(* word first, read as a two's-complement number of 32 * Len bits.         *)
(*                                                                         *)
(* TLC's integers are 32-bit signed, so a u32 word does not fit in one.    *)
(* A word is therefore kept at its full width of 32 bits as the pair       *)
(* <<hi, lo>> of its two 16-bit halves (word = hi * 2^16 + lo), and the    *)
(* u64 arithmetic of the code is carried out half by half.                 *)
(***************************************************************************)
EXTENDS Integers, Sequences, FiniteSets, TLC

\* BigInt: the operands, the result and the operation of a call
VARIABLES lhs, rhs, third, ret, panicked, op, steps, ext_len, text

bigintVars == <<lhs, rhs, third, ret, panicked, op, steps, ext_len, text>>

\* MockStorage: the stored files, the capacity, and the last upload made
\* (its handle, its arguments, the files before it and its result)
VARIABLES files, capacity, up_handle, up_name, up_size, up_before, up_result

storageVars == <<files, capacity, up_handle, up_name, up_size, up_before, up_result>>

\* spawn_funnel: the input channels, the worker threads, the output channel
VARIABLES chans, senderOpen, sent, wpc, held, out, rxAlive, funnel_pc, filter

funnelVars == <<chans, senderOpen, sent, wpc, held, out, rxAlive, funnel_pc, filter>>

\* graph: the nodes created, their edges, one SubGraph, the last detect_cycle
VARIABLES gval, gedges, subnodes, gchecked, gresult

graphVars == <<gval, gedges, subnodes, gchecked, gresult>>

\* SinglyLinkedList: the list, the sequence it stands for, the last call
VARIABLES head, lref, lbefore, lop, lret

listVars == <<head, lref, lbefore, lop, lret>>

\* organize: the organization table, the table before the last command,
\* the last command and the number of commands done
VARIABLES org, org_before, org_cmd, org_n

organizeVars == <<org, org_before, org_cmd, org_n>>

\* Divisors: the fields of the iterator, what it yielded, whether it
\* returned None
VARIABLES div_n, div_curr, div_factor, div_out, div_none

divisorsVars == <<div_n, div_curr, div_factor, div_out, div_none>>

\* Pythagorean: the fields of the iterator and what it yielded
VARIABLES py_m, py_n, py_heap, py_out

pythagoreanVars == <<py_m, py_n, py_heap, py_out>>

\* Rational: the operands, the operator and the result of the last operation
VARIABLES rat_lhs, rat_rhs, rat_op, rat_ret, rat_panicked

rationalVars == <<rat_lhs, rat_rhs, rat_op, rat_ret, rat_panicked>>

exerciseVars == <<organizeVars, divisorsVars, pythagoreanVars, rationalVars>>

\* the variables of the other programs of the repository
others == <<storageVars, funnelVars, graphVars, listVars, exerciseVars>>

vars == <<bigintVars, others>>

\* no BigInt call has been made
BigIntIdle ==
    /\ lhs = <<>>
    /\ rhs = <<>>
    /\ third = <<>>
    /\ ret = <<>>
    /\ panicked = FALSE
    /\ op = "none"
    /\ steps = 0
    /\ ext_len = 0
    /\ text = <<>>

\* no MockStorage has been created
StorageIdle ==
    /\ files = <<>>
    /\ capacity = 0
    /\ up_handle = 0
    /\ up_name = ""
    /\ up_size = 0
    /\ up_before = <<>>
    /\ up_result = [ok |-> TRUE, err |-> 0]

\* the other programs of the repository have not been started
\* the input channels handed to spawn_funnel and the values sent on them
Receivers == {1, 2}

FunnelValues == {1, 2}

\* channels created, spawn_funnel not called yet
FunnelIdle ==
    /\ chans = [r \in Receivers |-> <<>>]
    /\ senderOpen = [r \in Receivers |-> TRUE]
    /\ sent = [r \in Receivers |-> <<>>]
    /\ wpc = [r \in Receivers |-> "unspawned"]
    /\ held = [r \in Receivers |-> <<>>]
    /\ out = <<>>
    /\ rxAlive = TRUE
    /\ funnel_pc = [at |-> "idle", k |-> 0]
    /\ filter = [v \in FunnelValues |-> TRUE]

\* no node created, SubGraph::new()
GraphIdle ==
    /\ gval = <<>>
    /\ gedges = <<>>
    /\ subnodes = {}
    /\ gchecked = FALSE
    /\ gresult = FALSE

\* SinglyLinkedList::new()
ListIdle ==
    /\ head = <<>>
    /\ lref = <<>>
    /\ lbefore = <<>>
    /\ lop = "none"
    /\ lret = <<>>

\* organize called with no command done yet
OrganizeIdle ==
    /\ org = <<>>
    /\ org_before = <<>>
    /\ org_cmd = <<>>
    /\ org_n = 0

\* divisors(1), next not called yet
DivisorsIdle ==
    /\ div_n = 1
    /\ div_curr = 1
    /\ div_factor = <<>>
    /\ div_out = <<>>
    /\ div_none = FALSE

\* Pythagorean::new()
PythagoreanIdle ==
    /\ py_m = 2
    /\ py_n = 1
    /\ py_heap = {}
    /\ py_out = <<>>

\* no Rational operation done: the operands and the result are ZERO
RationalIdle ==
    /\ rat_lhs = [numerator |-> 0, denominator |-> 0]
    /\ rat_rhs = [numerator |-> 0, denominator |-> 0]
    /\ rat_op = "none"
    /\ rat_ret = [numerator |-> 0, denominator |-> 0]
    /\ rat_panicked = FALSE

ExercisesIdle ==
    OrganizeIdle /\ DivisorsIdle /\ PythagoreanIdle /\ RationalIdle

OthersIdle ==
    StorageIdle /\ FunnelIdle /\ GraphIdle /\ ListIdle /\ ExercisesIdle

-----------------------------------------------------------------------------
(* Bounds of the model.                                                    *)

\* longest carrier drawn for the receiver (self) of an operation
MaxLhsLen == 2
\* longest carrier drawn for the right operand of add and sub
MaxRhsLen == 2
\* longest carrier of each of the three operands of a double addition
MaxAssocLen == 1
\* longest word sequence handed to a constructor in a chain of operations
MaxChainLen == 1
\* number of add/sub operations in a chain of operations
MaxSteps == 3
\* largest target length handed to sign_extension
MaxExtendLen == 3
\* longest word sequence of a displayed BigInt
MaxDisplayLen == 2
\* most values sent on one input channel of the funnel
MaxSends == 2
\* most nodes created with NodeHandle::new
MaxNodes == 3
\* longest SinglyLinkedList
MaxListLen == 3
\* most commands handed to organize
MaxCommands == 4
\* largest n handed to divisors
MaxDivisorsN == 40
\* most triples taken from pythagorean()
MaxTriples == 120
\* largest numerator, in absolute value, of a Rational operand
MaxNumerator == 3
\* largest denominator of a Rational operand
MaxDenominator == 3
\* largest capacity of a MockStorage
MaxCapacity == 4
\* largest size of an uploaded file
MaxFileSize == 3

-----------------------------------------------------------------------------
(* u32 words.                                                              *)

\* 2^16: a u32 is the pair <<hi, lo>> with hi, lo \in 0 .. Half - 1
Half == 65536

W(hi, lo) == <<hi, lo>>

\* u32::MAX = 0xFFFFFFFF
U32_MAX == W(Half - 1, Half - 1)

\* 0_u32
U32_ZERO == W(0, 0)

\* const SIGN_MASK: u32 = 1 << 31
SIGN_MASK == W(Half \div 2, 0)

\* x & SIGN_MASK != 0 : SIGN_MASK has the single bit 31, the top bit of hi
SignBit(x) == (x[1] \div SIGN_MASK[1]) % 2 = 1

\* !x : the bitwise complement of a u32
NotWord(x) == W(Half - 1 - x[1], Half - 1 - x[2])

\* sum = a as u64 + b as u64 + carry (carry <= 1): the u64 sum never
\* overflows; word = sum as u32 (the low 32 bits), carry = sum >> 32
AddWords(a, b, carry) ==
    LET lo == a[2] + b[2] + carry
        hi == a[1] + b[1] + (lo \div Half)
    IN  [word |-> W(hi % Half, lo % Half), carry |-> hi \div Half]

Max(m, n) == IF m >= n THEN m ELSE n

-----------------------------------------------------------------------------
(* BigInt: the helper methods.  A carrier is a sequence of words; index 1  *)
(* of the sequence is carrier[0] of the code, the most significant word.   *)

\* while new_carrier.len() < len { new_carrier.insert(0, extend_word) }
RECURSIVE SignExtensionLoop(_, _, _)
SignExtensionLoop(new_carrier, extend_word, len) ==
    IF Len(new_carrier) < len
    THEN SignExtensionLoop(<<extend_word>> \o new_carrier, extend_word, len)
    ELSE new_carrier

\* a sign_extension that extends with the word of the other sign
sign_extension_inverted(self, len) ==
    LET sign_bit == SignBit(self[1])
        extend_word == IF sign_bit THEN U32_ZERO ELSE U32_MAX
    IN  SignExtensionLoop(self, extend_word, len)

\* a sign_extension that always extends with zero words
sign_extension_zero(self, len) == SignExtensionLoop(self, U32_ZERO, len)

\* a sign_extension that cuts the carrier down to len words
sign_extension_exact(self, len) ==
    LET sign_bit == SignBit(self[1])
        extend_word == IF sign_bit THEN U32_MAX ELSE U32_ZERO
        extended == SignExtensionLoop(self, extend_word, len)
    IN  SubSeq(extended, Len(extended) - len + 1, Len(extended))

\* fn sign_extension(&self, len: usize) -> Self
sign_extension(self, len) ==
    LET sign_bit == SignBit(self[1])
        extend_word == IF sign_bit THEN U32_MAX ELSE U32_ZERO
    IN  SignExtensionLoop(self, extend_word, len)

\* for &x in self.carrier.iter().rev(): i runs from the last word to the first
RECURSIVE TwoComplementLoop(_, _, _, _)
TwoComplementLoop(carrier, i, carry, acc) ==
    IF i = 0
    THEN acc
    ELSE LET sum == AddWords(NotWord(carrier[i]), U32_ZERO, carry)
         IN  TwoComplementLoop(carrier, i - 1, sum.carry, <<sum.word>> \o acc)

\* a two_complement that forgets to add one
two_complement_no_increment(self) == TwoComplementLoop(self, Len(self), 0, <<>>)

\* a two_complement that grows by a word where the negation does not fit
two_complement_growing(self) ==
    IF self[1] = SIGN_MASK /\ \A i \in 2 .. Len(self) : self[i] = U32_ZERO
    THEN <<U32_ZERO>> \o self
    ELSE TwoComplementLoop(self, Len(self), 1, <<>>)

\* fn two_complement(&self) -> Self
two_complement(self) == TwoComplementLoop(self, Len(self), 1, <<>>)

\* a truncation loop that does not look at the second word's sign
RECURSIVE TruncateLoopGreedy(_, _)
TruncateLoopGreedy(carrier, extend_word) ==
    IF Len(carrier) > 1 /\ carrier[1] = extend_word
    THEN TruncateLoopGreedy(Tail(carrier), extend_word)
    ELSE carrier

\* while carrier.len() > 1 && carrier[0] == extend_word { ... }
RECURSIVE TruncateLoop(_, _)
TruncateLoop(carrier, extend_word) ==
    IF Len(carrier) > 1 /\ carrier[1] = extend_word
    THEN LET second == carrier[2]
             expected_word == IF SignBit(second) THEN U32_MAX ELSE U32_ZERO
         IN  IF expected_word # extend_word
             THEN carrier
             ELSE TruncateLoop(Tail(carrier), extend_word)
    ELSE carrier

\* a truncate that leaves the carrier as it is
truncate_nothing(self) == self

\* fn truncate(&self) -> Self
truncate(self) ==
    LET sign_bit == SignBit(self[1])
        extend_word == IF sign_bit THEN U32_MAX ELSE U32_ZERO
    IN  TruncateLoop(self, extend_word)

-----------------------------------------------------------------------------
(* BigInt: construction, addition and subtraction.                         *)

\* pub fn new(n: u32) -> Self
new(n) == <<n>>

\* a new_large that forgets to truncate
new_large_untruncated(carrier) ==
    IF carrier = <<>>
    THEN [panic |-> TRUE, carrier |-> <<>>]
    ELSE [panic |-> FALSE, carrier |-> carrier]

\* pub fn new_large(carrier: Vec<u32>) -> Self; the assert panics on an
\* empty carrier, and then nothing is returned
new_large(carrier) ==
    IF carrier = <<>>
    THEN [panic |-> TRUE, carrier |-> <<>>]
    ELSE [panic |-> FALSE, carrier |-> truncate(carrier)]

\* an addition loop that drops the carry between words
RECURSIVE AddLoopNoCarry(_, _, _, _, _)
AddLoopNoCarry(l, r, i, carry, acc) ==
    IF i = 0
    THEN acc
    ELSE LET sum == AddWords(l[i], r[i], 0)
         IN  AddLoopNoCarry(l, r, i - 1, sum.carry, <<sum.word>> \o acc)

\* for (a, b) in zip(lhs.carrier.iter().rev(), rhs.carrier.iter().rev())
RECURSIVE AddLoop(_, _, _, _, _)
AddLoop(l, r, i, carry, acc) ==
    IF i = 0
    THEN acc
    ELSE LET sum == AddWords(l[i], r[i], carry)
         IN  AddLoop(l, r, i - 1, sum.carry, <<sum.word>> \o acc)

\* an overflow check that always prepends the zero word
OverflowZeroWord(acc, lhs_sign, rhs_sign) ==
    LET first_sign == SignBit(acc[1])
    IN  IF rhs_sign = lhs_sign /\ first_sign # rhs_sign
        THEN <<U32_ZERO>> \o acc
        ELSE acc

\* an overflow check that compares the raw sum with the left sign only
OverflowLhsSign(acc, lhs_sign, rhs_sign) ==
    LET first_sign == SignBit(acc[1])
    IN  IF first_sign # lhs_sign
        THEN IF lhs_sign THEN <<U32_MAX>> \o acc ELSE <<U32_ZERO>> \o acc
        ELSE acc

\* an overflow check that prepends the carry-out word and a sign word
OverflowTwoWords(acc, lhs_sign, rhs_sign) ==
    LET first_sign == SignBit(acc[1])
    IN  IF rhs_sign = lhs_sign /\ first_sign # rhs_sign
        THEN IF rhs_sign
             THEN <<U32_MAX, W(0, 1)>> \o acc
             ELSE <<U32_ZERO>> \o acc
        ELSE acc

\* an overflow check that does not compare the signs of the operands
OverflowFirstSign(acc, lhs_sign, rhs_sign) ==
    LET first_sign == SignBit(acc[1])
    IN  IF first_sign # rhs_sign
        THEN IF rhs_sign THEN <<U32_MAX>> \o acc ELSE <<U32_ZERO>> \o acc
        ELSE acc

\* the overflow check of add: one word is prepended when the operands have
\* the same sign and the raw sum has the other sign
Overflow(acc, lhs_sign, rhs_sign) ==
    LET first_sign == SignBit(acc[1])
    IN  IF rhs_sign = lhs_sign /\ first_sign # rhs_sign
        THEN IF rhs_sign THEN <<U32_MAX>> \o acc ELSE <<U32_ZERO>> \o acc
        ELSE acc

\* an add that returns the raw sum without truncating it
add_untruncated(self, other) ==
    LET max_len == Max(Len(self), Len(other))
        l == sign_extension(self, max_len)
        r == sign_extension(other, max_len)
        lhs_sign == SignBit(self[1])
        rhs_sign == SignBit(r[1])
        acc == AddLoop(l, r, max_len, 0, <<>>)
    IN  Overflow(acc, lhs_sign, rhs_sign)

\* fn add(self, rhs: Self) -> Self::Output
add(self, other) ==
    LET max_len == Max(Len(self), Len(other))
        l == sign_extension(self, max_len)
        r == sign_extension(other, max_len)
        lhs_sign == SignBit(self[1])
        rhs_sign == SignBit(r[1])
        acc == AddLoop(l, r, max_len, 0, <<>>)
    IN  truncate(Overflow(acc, lhs_sign, rhs_sign))

\* a sub that widens the right operand by a word before negating it
sub_widened(self, other) ==
    add(self, two_complement(sign_extension(other, Len(other) + 1)))

\* fn sub(self, rhs: Self) -> Self::Output
sub(self, other) == add(self, two_complement(other))

-----------------------------------------------------------------------------
(* The inputs: carriers over a few words at the edges of the u32 range.    *)

\* 0, 1, 3, 5, 0x0000FFFF, 0x7FFFFFFF, 0x80000000, 0xFFFFFFFF
Words ==
    { W(0, 0), W(0, 1), W(0, 3), W(0, 5), W(0, 65535),
      W(32767, 65535), W(32768, 0), W(65535, 65535) }

\* all word sequences of length lo .. hi
WordSeqs(lo, hi) == UNION { [1 .. n -> Words] : n \in lo .. hi }

-----------------------------------------------------------------------------
(* One operation applied to drawn operands.  lhs is the receiver (or the   *)
(* argument of a constructor), rhs and third are the further operands, ret *)
(* is the carrier returned, panicked tells that the call panicked instead  *)
(* of returning, op names the operation applied.                           *)

Init ==
    /\ lhs \in WordSeqs(0, MaxLhsLen)
    /\ rhs = <<>>
    /\ third = <<>>
    /\ ret = <<>>
    /\ panicked = FALSE
    /\ op = "none"
    /\ steps = 0
    /\ ext_len = 0
    /\ text = <<>>
    /\ OthersIdle

\* an operation that indexes carrier[0] of an empty carrier panics
Returns(name, value) ==
    /\ op' = name
    /\ IF lhs = <<>>
       THEN panicked' = TRUE /\ ret' = <<>>
       ELSE panicked' = FALSE /\ ret' = value

\* BigInt::new(n) on the one word of lhs
DoNew ==
    /\ op = "none"
    /\ Len(lhs) = 1
    /\ op' = "new"
    /\ ret' = new(lhs[1])
    /\ UNCHANGED <<lhs, rhs, third, panicked, steps, ext_len, text, others>>

\* BigInt::new_large(lhs)
DoNewLarge ==
    /\ op = "none"
    /\ op' = "new_large"
    /\ panicked' = new_large(lhs).panic
    /\ ret' = new_large(lhs).carrier
    /\ UNCHANGED <<lhs, rhs, third, steps, ext_len, text, others>>

\* BigInt { carrier: lhs }.truncate()
DoTruncate ==
    /\ op = "none"
    /\ Returns("truncate", truncate(lhs))
    /\ UNCHANGED <<lhs, rhs, third, steps, ext_len, text, others>>

\* BigInt { carrier: lhs } + BigInt { carrier: r }
DoAdd ==
    /\ op = "none"
    /\ \E r \in WordSeqs(1, MaxRhsLen) :
          /\ rhs' = r
          /\ Returns("add", add(lhs, r))
    /\ UNCHANGED <<lhs, third, steps, ext_len, text, others>>

\* BigInt { carrier: lhs } - BigInt { carrier: r }
DoSub ==
    /\ op = "none"
    /\ \E r \in WordSeqs(1, MaxRhsLen) :
          /\ rhs' = r
          /\ Returns("sub", sub(lhs, r))
    /\ UNCHANGED <<lhs, third, steps, ext_len, text, others>>

\* (BigInt { carrier: lhs } + BigInt { carrier: r }) + BigInt { carrier: t }
DoAdd3 ==
    /\ op = "none"
    /\ Len(lhs) <= MaxAssocLen
    /\ \E r, t \in WordSeqs(1, MaxAssocLen) :
          /\ rhs' = r
          /\ third' = t
          /\ Returns("add3", add(add(lhs, r), t))
    /\ UNCHANGED <<lhs, steps, ext_len, text, others>>

\* BigInt { carrier: lhs }.sign_extension(n)
DoSignExtension ==
    /\ op = "none"
    /\ \E n \in 0 .. MaxExtendLen :
          /\ ext_len' = n
          /\ Returns("sign_extension", sign_extension(lhs, n))
    /\ UNCHANGED <<lhs, rhs, third, steps, text, others>>

\* BigInt { carrier: lhs }.two_complement()
DoTwoComplement ==
    /\ op = "none"
    /\ Returns("two_complement", two_complement(lhs))
    /\ UNCHANGED <<lhs, rhs, third, steps, ext_len, text, others>>

Next ==
    \/ DoNew
    \/ DoNewLarge
    \/ DoTruncate
    \/ DoAdd
    \/ DoSub
    \/ DoAdd3
    \/ DoSignExtension
    \/ DoTwoComplement

Spec == Init /\ [][Next]_vars

-----------------------------------------------------------------------------
(* A sequence of operations: a BigInt is constructed, and then up to       *)
(* MaxSteps additions and subtractions are applied, each to the BigInt     *)
(* returned last and, on either side, that BigInt again or a freshly       *)
(* constructed one.  lhs and rhs are the operands of the last addition or  *)
(* subtraction.                                                            *)

\* 0, 1, 0x7FFFFFFF, 0x80000000, 0xFFFFFFFF
ChainWords == { W(0, 0), W(0, 1), W(32767, 65535), W(32768, 0), W(65535, 65535) }

ChainWordSeqs(lo, hi) == UNION { [1 .. n -> ChainWords] : n \in lo .. hi }

InitChain ==
    /\ BigIntIdle
    /\ OthersIdle

ChainNew ==
    /\ op = "none"
    /\ \E v \in ChainWords : ret' = new(v)
    /\ op' = "new"
    /\ UNCHANGED <<lhs, rhs, third, panicked, steps, ext_len, text, others>>

ChainNewLarge ==
    /\ op = "none"
    /\ \E ws \in ChainWordSeqs(0, MaxChainLen) :
          /\ panicked' = new_large(ws).panic
          /\ ret' = new_large(ws).carrier
    /\ op' = "new_large"
    /\ UNCHANGED <<lhs, rhs, third, steps, ext_len, text, others>>

\* the BigInts at hand: the one returned last and freshly constructed ones
Operands ==
    {ret} \cup { new(v) : v \in ChainWords }
          \cup { new_large(ws).carrier : ws \in ChainWordSeqs(1, MaxChainLen) }

ChainAdd ==
    /\ op # "none"
    /\ ~panicked
    /\ steps < MaxSteps
    /\ \E x \in Operands, swap \in BOOLEAN :
          LET a == IF swap THEN x ELSE ret
              b == IF swap THEN ret ELSE x
          IN  /\ lhs' = a
              /\ rhs' = b
              /\ ret' = add(a, b)
    /\ op' = "add"
    /\ steps' = steps + 1
    /\ UNCHANGED <<third, panicked, ext_len, text, others>>

ChainSub ==
    /\ op # "none"
    /\ ~panicked
    /\ steps < MaxSteps
    /\ \E x \in Operands, swap \in BOOLEAN :
          LET a == IF swap THEN x ELSE ret
              b == IF swap THEN ret ELSE x
          IN  /\ lhs' = a
              /\ rhs' = b
              /\ ret' = sub(a, b)
    /\ op' = "sub"
    /\ steps' = steps + 1
    /\ UNCHANGED <<third, panicked, ext_len, text, others>>

NextChain ==
    \/ ChainNew
    \/ ChainNewLarge
    \/ ChainAdd
    \/ ChainSub

SpecChain == InitChain /\ [][NextChain]_vars

-----------------------------------------------------------------------------
(* The mathematical value of a carrier.  An integer is written as a        *)
(* polynomial in Half with integer coefficients: the sequence p stands for *)
(* the integer  p[1] + p[2] * Half + p[3] * Half^2 + ...  Coefficients may *)
(* be negative or exceed Half; two polynomials are compared by the integer *)
(* they stand for, not coefficient by coefficient.                         *)

Coef(p, k) == IF k \in DOMAIN p THEN p[k] ELSE 0

PAdd(p, q) == [k \in 1 .. Max(Len(p), Len(q)) |-> Coef(p, k) + Coef(q, k)]

PSub(p, q) == [k \in 1 .. Max(Len(p), Len(q)) |-> Coef(p, k) - Coef(q, k)]

\* Carrying from the lowest coefficient upward leaves digits in 0 .. Half-1
\* and a final carry c: the integer is c * Half^Len(p) + (digits), with
\* 0 <= (digits) < Half^Len(p).  So it is zero iff all digits and c are
\* zero, and negative iff c < 0.
RECURSIVE Carried(_, _, _, _)
Carried(p, k, carry, zero) ==
    IF k > Len(p)
    THEN [carry |-> carry, zero |-> zero /\ carry = 0]
    ELSE LET t == p[k] + carry
         IN  Carried(p, k + 1, (t - (t % Half)) \div Half, zero /\ t % Half = 0)

PIsZero(p) == Carried(p, 1, 0, TRUE).zero

PIsNegative(p) == Carried(p, 1, 0, TRUE).carry < 0

PEq(p, q) == PIsZero(PSub(p, q))

PLess(p, q) == PIsNegative(PSub(p, q))

PNeg(p) == [k \in 1 .. Len(p) |-> -p[k]]

\* 2^(32 * n - 1) = 2^15 * Half^(2n - 1)
PowerOfSign(n) == [k \in 1 .. 2 * n |-> IF k = 2 * n THEN Half \div 2 ELSE 0]

\* the sign of a carrier: the highest bit of its most significant word
Negative(x) == x[1][1] >= Half \div 2

\* the unsigned reading of the words, minus 2^(32 * Len(x)) when negative
Value(x) ==
    LET n == Len(x)
    IN  [k \in 1 .. 2 * n + 1 |->
            IF k = 2 * n + 1
            THEN IF Negative(x) THEN -1 ELSE 0
            ELSE LET word == x[n - ((k - 1) \div 2)]
                 IN  IF k % 2 = 1 THEN word[2] ELSE word[1]]

\* x is the shortest carrier of its value: a shorter carrier of the same
\* value, sign-extended to Len(x) - 1 words, would be Tail(x), because a
\* value has one two's-complement representation at each width
Shortest(x) ==
    /\ Len(x) >= 1
    /\ Len(x) > 1 => ~PEq(Value(x), Value(Tail(x)))

\* the canonical form as a shape of the words: one word, or a leading word
\* that is not the sign-extension word of the second word's sign bit
CanonicalForm(x) ==
    /\ Len(x) >= 1
    /\ Len(x) > 1 =>
          x[1] # (IF x[2][1] >= Half \div 2 THEN U32_MAX ELSE U32_ZERO)

\* the sum of n-word operands lies outside the signed 32n-bit range
\* -2^(32n-1) .. 2^(32n-1) - 1
OutOfRange(sum, n) ==
    \/ ~PLess(sum, PowerOfSign(n))
    \/ PLess(sum, PNeg(PowerOfSign(n)))

-----------------------------------------------------------------------------
(* The claims.                                                             *)

\* C1: add(a, b) of non-empty carriers returns the shortest carrier whose
\* value is exactly value(a) + value(b).
AddExact ==
    (op = "add" /\ ~panicked) =>
        /\ PEq(Value(ret), PAdd(Value(lhs), Value(rhs)))
        /\ Shortest(ret)

\* C1 witness: two negative two-word operands whose sum needs a third word
AddExactWitness ==
    /\ op = "add"
    /\ lhs = <<W(32768, 0), W(0, 0)>>
    /\ rhs = <<W(65535, 65535), W(65535, 65535)>>
    /\ ret = <<U32_MAX, W(32767, 65535), W(65535, 65535)>>

\* C2: sub(a, b) of non-empty carriers returns the shortest carrier whose
\* value is exactly value(a) - value(b); sub(3, 5) is [0xFFFFFFFE].
SubExact ==
    (op = "sub" /\ ~panicked) =>
        /\ PEq(Value(ret), PSub(Value(lhs), Value(rhs)))
        /\ Shortest(ret)
        /\ (lhs = <<W(0, 3)>> /\ rhs = <<W(0, 5)>>) => ret = <<W(65535, 65534)>>

\* C3: sub(a, a) returns [0] for every non-empty carrier a.
SubSelfIsZero ==
    (op = "sub" /\ ~panicked /\ rhs = lhs) => ret = <<U32_ZERO>>

\* C4: when both operands of add have n words and their sum lies outside
\* the signed 32n-bit range, the result is canonical, has n + 1 words, and
\* its leading word is all-0s for positive and all-1s for negative operands.
AddGrowth ==
    (/\ op = "add"
     /\ ~panicked
     /\ Len(lhs) = Len(rhs)
     /\ OutOfRange(PAdd(Value(lhs), Value(rhs)), Len(lhs))) =>
        /\ Len(ret) = Len(lhs) + 1
        /\ CanonicalForm(ret)
        /\ Negative(lhs) = Negative(rhs)
        /\ ret[1] = (IF Negative(lhs) THEN U32_MAX ELSE U32_ZERO)

\* C4 witness: add([0x7FFFFFFF], [1]) = [0x00000000, 0x80000000]
AddGrowthWitness ==
    /\ op = "add"
    /\ lhs = <<W(32767, 65535)>>
    /\ rhs = <<W(0, 1)>>
    /\ ret = <<U32_ZERO, W(32768, 0)>>

\* C5: every BigInt returned by new, new_large, add or sub in a sequence of
\* operations has a non-empty carrier in canonical form.
ReturnedIsCanonical ==
    (op \in {"new", "new_large", "add", "sub"} /\ ~panicked) => CanonicalForm(ret)

\* C5 witness: the last operation of a full sequence gets a two-word operand
\* and returns a one-word result
ReturnedIsCanonicalWitness ==
    /\ steps = MaxSteps
    /\ op \in {"add", "sub"}
    /\ Len(lhs) = 2
    /\ Len(ret) = 1

\* C6: truncate(x) of a non-empty x is non-empty, has the value of x and is
\* the shortest carrier of that value; [0, 0] becomes [0], and
\* [0, 0x80000000] and [0xFFFFFFFF, 0x7FFFFFFF] are returned unchanged.
TruncateShortest ==
    (op = "truncate" /\ ~panicked) =>
        /\ Len(ret) >= 1
        /\ PEq(Value(ret), Value(lhs))
        /\ Shortest(ret)
        /\ lhs = <<U32_ZERO, U32_ZERO>> => ret = <<U32_ZERO>>
        /\ lhs = <<U32_ZERO, W(32768, 0)>> => ret = lhs
        /\ lhs = <<U32_MAX, W(32767, 65535)>> => ret = lhs

\* C6 witness: a three-word carrier loses one leading word and keeps two
TruncateShortestWitness ==
    /\ op = "truncate"
    /\ Len(lhs) = MaxLhsLen
    /\ lhs[1] = U32_ZERO
    /\ Len(ret) = Len(lhs) - 1
    /\ ret[1] # lhs[1]

\* C7: new_large panics on the empty sequence and returns nothing; on a
\* non-empty sequence it returns the truncated sequence, of the same value
\* and canonical, which is the input itself when the input is canonical.
NewLargeContract ==
    op = "new_large" =>
        IF lhs = <<>>
        THEN panicked /\ ret = <<>>
        ELSE /\ ~panicked
             /\ ret = truncate(lhs)
             /\ PEq(Value(ret), Value(lhs))
             /\ CanonicalForm(ret)
             /\ CanonicalForm(lhs) => ret = lhs

\* C7 witness: the panic on the empty sequence
NewLargeContractWitness ==
    /\ op = "new_large"
    /\ lhs = <<>>
    /\ panicked

\* C8: new(v) returns [v], and a BigInt made by new(v) counts as the signed
\* value of v (v - 2^32 when v >= 2^31) as either operand of add and sub.
SmallSigned(v) == <<v[2], v[1], IF v[1] >= Half \div 2 THEN -1 ELSE 0>>

NewIsSigned ==
    /\ op = "new" => ret = <<lhs[1]>>
    /\ (op = "add" /\ ~panicked /\ lhs = new(lhs[1])) =>
          PEq(Value(ret), PAdd(SmallSigned(lhs[1]), Value(rhs)))
    /\ (op = "add" /\ ~panicked /\ rhs = new(rhs[1])) =>
          PEq(Value(ret), PAdd(Value(lhs), SmallSigned(rhs[1])))
    /\ (op = "sub" /\ ~panicked /\ lhs = new(lhs[1])) =>
          PEq(Value(ret), PSub(SmallSigned(lhs[1]), Value(rhs)))
    /\ (op = "sub" /\ ~panicked /\ rhs = new(rhs[1])) =>
          PEq(Value(ret), PSub(Value(lhs), SmallSigned(rhs[1])))

\* C9: add(a, b) and add(b, a) return the same word sequence, for operands
\* of equal or different lengths, canonical or not.
AddCommutative ==
    (op = "add" /\ ~panicked) => ret = add(rhs, lhs)

\* C9 witness: operands of different lengths, the longer one not canonical
AddCommutativeWitness ==
    /\ op = "add"
    /\ Len(lhs) = 1
    /\ Len(rhs) = 2
    /\ ~CanonicalForm(rhs)
    /\ Negative(lhs) # Negative(rhs)
    /\ Len(ret) = 1

\* C10: add(add(a, b), c) and add(a, add(b, c)) return the same word
\* sequence, also when an intermediate sum grows by a word or is truncated.
AddAssociative ==
    (op = "add3" /\ ~panicked) => ret = add(lhs, add(rhs, third))

\* C10 witness: a + b grows to two words and (a + b) + c is truncated to one
AddAssociativeWitness ==
    /\ op = "add3"
    /\ ~panicked
    /\ Len(add(lhs, rhs)) = Len(lhs) + 1
    /\ Len(add(rhs, third)) = 1
    /\ Len(ret) = 1

\* the minimum negative value of a width: 0x80000000 followed by zero words
IsMinimum(x) ==
    /\ x[1] = W(Half \div 2, 0)
    /\ \A i \in 2 .. Len(x) : x[i] = U32_ZERO

\* C11: add(x, new(0)) and add(new(0), x) return truncate(x): the shortest
\* carrier of the value of x, and x itself when x is canonical.
IsTruncated(x, r) ==
    /\ r = truncate(x)
    /\ PEq(Value(r), Value(x))
    /\ Shortest(r)
    /\ CanonicalForm(x) => r = x

AddIdentity ==
    /\ (op = "add" /\ ~panicked /\ rhs = new(U32_ZERO)) => IsTruncated(lhs, ret)
    /\ (op = "add" /\ ~panicked /\ lhs = new(U32_ZERO)) => IsTruncated(rhs, ret)

\* C11 witness: zero added on the left of a negative two-word carrier that
\* is not canonical
AddIdentityWitness ==
    /\ op = "add"
    /\ lhs = new(U32_ZERO)
    /\ rhs = <<U32_MAX, W(32768, 0)>>
    /\ ret = <<W(32768, 0)>>

\* C12: add(x, two_complement(x)) returns [0] for every x that is not the
\* minimum negative value of its width (sub(x, x) is this very sum).
AddInverse ==
    (/\ ~panicked
     /\ \/ op = "add" /\ rhs = two_complement(lhs)
        \/ op = "sub" /\ rhs = lhs
     /\ ~IsMinimum(lhs)) => ret = <<U32_ZERO>>

\* C12 witness: a two-word x whose negation carries into the leading word
AddInverseWitness ==
    /\ op = "add"
    /\ lhs = <<W(0, 1), U32_ZERO>>
    /\ rhs = <<U32_MAX, U32_ZERO>>
    /\ ret = <<U32_ZERO>>

\* C13: for n >= Len(x), truncate(sign_extension(x, n)) is truncate(x).
ExtendThenTruncate ==
    (op = "sign_extension" /\ ~panicked /\ ext_len >= Len(lhs)) =>
        truncate(ret) = truncate(lhs)

\* C13 witness: a negative one-word carrier extended by two words
ExtendThenTruncateWitness ==
    /\ op = "sign_extension"
    /\ Len(lhs) = 1
    /\ Negative(lhs)
    /\ ext_len = Len(lhs) + 2
    /\ Len(ret) = ext_len
    /\ truncate(ret) = lhs

\* C14: the results of add(a, b) and sub(a, b) have at most
\* max(Len(a), Len(b)) + 1 words.
BoundedGrowth ==
    (op \in {"add", "sub"} /\ ~panicked) =>
        Len(ret) <= Max(Len(lhs), Len(rhs)) + 1

\* C14 witness: a subtraction that grows the longer operand by one word
BoundedGrowthWitness ==
    /\ op = "sub"
    /\ Len(lhs) = 1
    /\ Len(rhs) = MaxRhsLen
    /\ Len(ret) = MaxRhsLen + 1

-----------------------------------------------------------------------------
(* MockStorage and FileUploader of assignment11/mock_storage.rs.  files is *)
(* the HashMap from file name to size, a function on the stored names.     *)

FileNames == {"file1", "file2", "file3"}

\* the FileUploader handles that share the one storage
Uploaders == {1, 2}

\* files.values().sum()
RECURSIVE SumValues(_, _)
SumValues(fs, names) ==
    IF names = {}
    THEN 0
    ELSE LET n == CHOOSE x \in names : TRUE
         IN  fs[n] + SumValues(fs, names \ {n})

\* fn used(&self) -> usize
used(fs) == SumValues(fs, DOMAIN fs)

\* files.insert(name.to_string(), size)
Insert(fs, name, size) ==
    [n \in DOMAIN fs \cup {name} |-> IF n = name THEN size ELSE fs[n]]

\* an upload that does not count the old size of the name as freed
storage_upload_keeps_old(fs, cap, name, size) ==
    LET l == SumValues(fs, DOMAIN fs)
        new_len == l + size
    IN  IF new_len > cap
        THEN [files |-> fs, result |-> [ok |-> FALSE, err |-> cap - l]]
        ELSE [files |-> Insert(fs, name, size), result |-> [ok |-> TRUE, err |-> 0]]

\* fn upload(&self, name: &str, size: usize) -> Result<(), usize>
storage_upload(fs, cap, name, size) ==
    LET l == SumValues(fs, DOMAIN fs)
        old == IF name \in DOMAIN fs THEN fs[name] ELSE 0
        new_len == l - old + size
    IN  IF new_len > cap
        THEN [files |-> fs, result |-> [ok |-> FALSE, err |-> cap - l]]
        ELSE [files |-> Insert(fs, name, size), result |-> [ok |-> TRUE, err |-> 0]]

\* MockStorage::new(capacity)
InitStorage ==
    /\ BigIntIdle
    /\ FunnelIdle
    /\ GraphIdle
    /\ ListIdle
    /\ ExercisesIdle
    /\ files = <<>>
    /\ capacity \in 0 .. MaxCapacity
    /\ up_handle = 0
    /\ up_name = ""
    /\ up_size = 0
    /\ up_before = <<>>
    /\ up_result = [ok |-> TRUE, err |-> 0]

\* FileUploader::upload(name, size) through the handle h: self.storage.upload
Upload ==
    /\ \E h \in Uploaders, name \in FileNames, size \in 0 .. MaxFileSize :
          /\ up_handle' = h
          /\ up_name' = name
          /\ up_size' = size
          /\ up_before' = files
          /\ files' = storage_upload(files, capacity, name, size).files
          /\ up_result' = storage_upload(files, capacity, name, size).result
    /\ UNCHANGED <<capacity, bigintVars, funnelVars, graphVars, listVars,
                   exerciseVars>>

NextStorage == Upload

SpecStorage == InitStorage /\ [][NextStorage]_vars

\* the sum of the sizes of the stored files, name by name
TotalSize(fs) ==
    LET Size(n) == IF n \in DOMAIN fs THEN fs[n] ELSE 0
    IN  Size("file1") + Size("file2") + Size("file3")

\* the space needed after the last upload: used - old size + new size
Needed ==
    TotalSize(up_before)
      - (IF up_name \in DOMAIN up_before THEN up_before[up_name] ELSE 0)
      + up_size

\* C16: used() is the sum of the stored sizes and never exceeds capacity();
\* an upload succeeds exactly when used - old size of the name + new size
\* fits, and then stores the file; a failed upload changes nothing.
StorageWithinCapacity ==
    /\ used(files) = TotalSize(files)
    /\ used(files) <= capacity
    /\ up_handle # 0 =>
          /\ up_result.ok <=> (Needed <= capacity)
          /\ up_result.ok =>
                /\ up_name \in DOMAIN files
                /\ files[up_name] = up_size
                /\ used(files) = Needed
          /\ ~up_result.ok => files = up_before

\* C16 witness: the second handle overwrites a file with a larger size that
\* fits only because the old size is freed
StorageWithinCapacityWitness ==
    /\ up_handle = 2
    /\ up_result.ok
    /\ up_name \in DOMAIN up_before
    /\ up_before[up_name] < up_size
    /\ TotalSize(up_before) + up_size > capacity
    /\ used(files) = capacity

\* C17: a failed upload returns Err with the amount by which the needed
\* space exceeds the capacity, and upload returns Ok exactly when the needed
\* space is at most the capacity.
UploadErrIsShortfall ==
    up_handle # 0 =>
        /\ up_result.ok <=> (Needed <= capacity)
        /\ ~up_result.ok => up_result.err = Needed - capacity

-----------------------------------------------------------------------------
(* impl fmt::Display for BigInt.  A string is the sequence of its          *)
(* characters.                                                             *)

HexDigits ==
    << "0", "1", "2", "3", "4", "5", "6", "7",
       "8", "9", "a", "b", "c", "d", "e", "f" >>

\* the lower-case hexadecimal digits of n < 2^16, without leading zeros
RECURSIVE LowerHex16(_)
LowerHex16(n) ==
    IF n < 16
    THEN <<HexDigits[n + 1]>>
    ELSE LowerHex16(n \div 16) \o <<HexDigits[(n % 16) + 1]>>

\* zero padding on the left up to a width
RECURSIVE PadZero(_, _)
PadZero(digits, width) ==
    IF Len(digits) < width THEN PadZero(<<"0">> \o digits, width) ELSE digits

\* "{:x}" of a u32: its hexadecimal digits without leading zeros
LowerHex(x) ==
    IF x[1] = 0
    THEN LowerHex16(x[2])
    ELSE LowerHex16(x[1]) \o PadZero(LowerHex16(x[2]), 4)

\* a word formatted without the zero padding
FormatWordUnpadded(x) == LowerHex(x)

\* write!(f, "{:08x}", i)
FormatWord(x) == PadZero(LowerHex(x), 8)

\* for i in self.carrier.iter() { write!(f, "{:08x}", i)?; }
RECURSIVE Display(_)
Display(carrier) ==
    IF carrier = <<>>
    THEN <<>>
    ELSE FormatWord(Head(carrier)) \o Display(Tail(carrier))

\* 0, 3, 5, 0x00ABCDEF, 0x12345678, 0x9ABC0DEF, 0xFFFFFFF8, 0xFFFFFFFA
DisplayWords ==
    { W(0, 0), W(0, 3), W(0, 5), W(171, 52719), W(4660, 22136),
      W(39612, 3567), W(65535, 65528), W(65535, 65530) }

InitDisplay ==
    /\ BigIntIdle
    /\ OthersIdle

\* format!("{}", BigInt::new_large(ws))
DisplayNewLarge ==
    /\ op = "none"
    /\ \E ws \in UNION { [1 .. n -> DisplayWords] : n \in 1 .. MaxDisplayLen } :
          /\ lhs' = ws
          /\ ret' = new_large(ws).carrier
          /\ text' = Display(new_large(ws).carrier)
    /\ op' = "display"
    /\ UNCHANGED <<rhs, third, panicked, steps, ext_len, others>>

\* format!("{}", BigInt::new(a) + BigInt::new(b))
DisplaySum ==
    /\ op = "none"
    /\ \E a, b \in DisplayWords :
          /\ lhs' = new(a)
          /\ rhs' = new(b)
          /\ ret' = add(new(a), new(b))
          /\ text' = Display(add(new(a), new(b)))
    /\ op' = "display"
    /\ UNCHANGED <<third, panicked, steps, ext_len, others>>

NextDisplay ==
    \/ DisplayNewLarge
    \/ DisplaySum

SpecDisplay == InitDisplay /\ [][NextDisplay]_vars

\* the value of a hexadecimal digit character
HexValue(c) == CHOOSE d \in 0 .. 15 : HexDigits[d + 1] = c

\* the number written by four hexadecimal digits
FourDigits(t, k) ==
    ((HexValue(t[k]) * 16 + HexValue(t[k + 1])) * 16 + HexValue(t[k + 2])) * 16
        + HexValue(t[k + 3])

\* C15: the text has 8 characters per word, all lower-case hexadecimal
\* digits, and the i-th group of 8 reads as the i-th word, most significant
\* word first; [0xFFFFFFFA, 0xFFFFFFF8] gives "fffffffafffffff8" and
\* new(5) + new(3) gives "00000008".
DisplayHex ==
    op = "display" =>
        /\ Len(text) = 8 * Len(ret)
        /\ \A k \in 1 .. Len(text) :
              text[k] \in { HexDigits[d] : d \in 1 .. 16 }
        /\ \A i \in 1 .. Len(ret) :
              /\ FourDigits(text, 8 * (i - 1) + 1) = ret[i][1]
              /\ FourDigits(text, 8 * (i - 1) + 5) = ret[i][2]
        /\ (rhs = <<>> /\ lhs = <<W(65535, 65530), W(65535, 65528)>>) =>
              text = << "f", "f", "f", "f", "f", "f", "f", "a",
                        "f", "f", "f", "f", "f", "f", "f", "8" >>
        /\ (lhs = <<W(0, 5)>> /\ rhs = <<W(0, 3)>>) =>
              text = << "0", "0", "0", "0", "0", "0", "0", "8" >>

\* C15 witness: new(5) + new(3) displayed
DisplayHexWitness ==
    /\ op = "display"
    /\ lhs = <<W(0, 5)>>
    /\ rhs = <<W(0, 3)>>
    /\ ret = <<W(0, 8)>>
    /\ Len(text) = 8

-----------------------------------------------------------------------------
(* spawn_funnel.  The funnel thread spawns one worker per input receiver   *)
(* and joins them; a worker loops over recv, f and send.                   *)

\* the worker's test: if f(&val)
ShouldSendAlways(fn, val) == TRUE

ShouldSend(fn, val) == fn[val]

\* the filters handed to spawn_funnel
FunnelFilters == [FunnelValues -> BOOLEAN]

InitFunnel ==
    /\ BigIntIdle
    /\ StorageIdle
    /\ GraphIdle
    /\ ListIdle
    /\ ExercisesIdle
    /\ chans = [r \in Receivers |-> <<>>]
    /\ senderOpen = [r \in Receivers |-> TRUE]
    /\ sent = [r \in Receivers |-> <<>>]
    /\ wpc = [r \in Receivers |-> "unspawned"]
    /\ held = [r \in Receivers |-> <<>>]
    /\ out = <<>>
    /\ rxAlive = TRUE
    /\ funnel_pc = [at |-> "idle", k |-> 0]
    /\ filter \in FunnelFilters

notFunnel == <<bigintVars, storageVars, graphVars, listVars, exerciseVars>>

\* the owner of an input sender sends a value on it
SendInput ==
    /\ \E r \in Receivers, v \in FunnelValues :
          /\ senderOpen[r]
          /\ Len(sent[r]) < MaxSends
          /\ chans' = [chans EXCEPT ![r] = Append(@, v)]
          /\ sent' = [sent EXCEPT ![r] = Append(@, v)]
    /\ UNCHANGED <<senderOpen, wpc, held, out, rxAlive, funnel_pc, filter, notFunnel>>

\* the owner of an input sender drops it
CloseInput ==
    /\ \E r \in Receivers :
          /\ senderOpen[r]
          /\ senderOpen' = [senderOpen EXCEPT ![r] = FALSE]
    /\ UNCHANGED <<chans, sent, wpc, held, out, rxAlive, funnel_pc, filter, notFunnel>>

\* the owner of the output receiver drops it
DropOutput ==
    /\ rxAlive
    /\ rxAlive' = FALSE
    /\ UNCHANGED <<chans, senderOpen, sent, wpc, held, out, funnel_pc, filter, notFunnel>>

\* thread::spawn(move || { let mut handles = vec![]; ...
SpawnFunnel ==
    /\ funnel_pc.at = "idle"
    /\ funnel_pc' = [at |-> "spawn", k |-> 0]
    /\ UNCHANGED <<chans, senderOpen, sent, wpc, held, out, rxAlive, filter, notFunnel>>

\* for rx in rxs { ... thread::spawn(...); handles.push(handle); }
SpawnWorker ==
    /\ funnel_pc.at = "spawn"
    /\ IF funnel_pc.k < Cardinality(Receivers)
       THEN /\ wpc' = [wpc EXCEPT ![funnel_pc.k + 1] = "recv"]
            /\ funnel_pc' = [funnel_pc EXCEPT !.k = @ + 1]
       ELSE /\ funnel_pc' = [at |-> "join", k |-> 0]
            /\ UNCHANGED wpc
    /\ UNCHANGED <<chans, senderOpen, sent, held, out, rxAlive, filter, notFunnel>>

\* while let Ok(val) = rx.recv(): a value, or Err once the channel is
\* empty and its sender dropped; blocked otherwise
WorkerRecv ==
    /\ \E r \in Receivers :
          /\ wpc[r] = "recv"
          /\ IF chans[r] # <<>>
             THEN /\ held' = [held EXCEPT ![r] = <<Head(chans[r])>>]
                  /\ chans' = [chans EXCEPT ![r] = Tail(@)]
                  /\ wpc' = [wpc EXCEPT ![r] = "filter"]
             ELSE /\ ~senderOpen[r]
                  /\ wpc' = [wpc EXCEPT ![r] = "done"]
                  /\ UNCHANGED <<held, chans>>
    /\ UNCHANGED <<senderOpen, sent, out, rxAlive, funnel_pc, filter, notFunnel>>

\* if f(&val) { ... }
WorkerFilter ==
    /\ \E r \in Receivers :
          /\ wpc[r] = "filter"
          /\ IF ShouldSend(filter, held[r][1])
             THEN /\ wpc' = [wpc EXCEPT ![r] = "send"]
                  /\ UNCHANGED held
             ELSE /\ wpc' = [wpc EXCEPT ![r] = "recv"]
                  /\ held' = [held EXCEPT ![r] = <<>>]
    /\ UNCHANGED <<chans, senderOpen, sent, out, rxAlive, funnel_pc, filter, notFunnel>>

\* let _unused = tx.send(val): Err, ignored, once the receiver is dropped
WorkerSend ==
    /\ \E r \in Receivers :
          /\ wpc[r] = "send"
          /\ out' = IF rxAlive THEN Append(out, held[r][1]) ELSE out
          /\ held' = [held EXCEPT ![r] = <<>>]
          /\ wpc' = [wpc EXCEPT ![r] = "recv"]
    /\ UNCHANGED <<chans, senderOpen, sent, rxAlive, funnel_pc, filter, notFunnel>>

\* for handle in handles { let _unused = handle.join(); }
JoinWorker ==
    /\ funnel_pc.at = "join"
    /\ IF funnel_pc.k < Cardinality(Receivers)
       THEN /\ wpc[funnel_pc.k + 1] = "done"
            /\ funnel_pc' = [funnel_pc EXCEPT !.k = @ + 1]
       ELSE funnel_pc' = [at |-> "done", k |-> 0]
    /\ UNCHANGED <<chans, senderOpen, sent, wpc, held, out, rxAlive, filter, notFunnel>>

NextFunnel ==
    \/ SendInput
    \/ CloseInput
    \/ DropOutput
    \/ SpawnFunnel
    \/ SpawnWorker
    \/ WorkerRecv
    \/ WorkerFilter
    \/ WorkerSend
    \/ JoinWorker

SpecFunnel == InitFunnel /\ [][NextFunnel]_vars

\* how many times v occurs in a sequence
RECURSIVE Count(_, _)
Count(seq, v) ==
    IF seq = <<>>
    THEN 0
    ELSE (IF Head(seq) = v THEN 1 ELSE 0) + Count(Tail(seq), v)

\* the sum of a function of the receivers
RECURSIVE SumOver(_, _)
SumOver(fn, rs) ==
    IF rs = {}
    THEN 0
    ELSE LET r == CHOOSE x \in rs : TRUE
         IN  fn[r] + SumOver(fn, rs \ {r})

\* how many times v was sent on the inputs
TimesSent(v) == SumOver([r \in Receivers |-> Count(sent[r], v)], Receivers)

\* how many copies of v are still on their way through the funnel
InFlight(v) ==
    SumOver([r \in Receivers |-> Count(chans[r], v) + Count(held[r], v)],
            Receivers)

\* C18: nothing f rejects and nothing that was not sent on an input reaches
\* tx; while the output receiver is alive every accepted value sent on an
\* input is either still on its way or was sent to tx exactly once, so that
\* once the funnel has finished tx got each accepted value as often as it
\* was sent.
FunnelForwardsFiltered ==
    /\ \A k \in 1 .. Len(out) : out[k] \in FunnelValues /\ filter[out[k]]
    /\ \A v \in FunnelValues : Count(out, v) <= TimesSent(v)
    /\ rxAlive =>
          \A v \in FunnelValues :
             filter[v] => Count(out, v) + InFlight(v) = TimesSent(v)
    /\ (rxAlive /\ funnel_pc.at = "done") =>
          \A v \in FunnelValues :
             Count(out, v) = (IF filter[v] THEN TimesSent(v) ELSE 0)

\* C18 witness: the funnel has finished with the receiver alive, both
\* workers forwarded a value and a rejected value was dropped
FunnelForwardsFilteredWitness ==
    /\ rxAlive
    /\ funnel_pc.at = "done"
    /\ Len(out) >= 2
    /\ \A r \in Receivers : \E k \in 1 .. Len(sent[r]) : filter[sent[r][k]]
    /\ \E r \in Receivers : \E k \in 1 .. Len(sent[r]) : ~filter[sent[r][k]]

-----------------------------------------------------------------------------
(* graph.  A node is its index in gval; a NodeHandle compares and hashes   *)
(* by the value of its node, so a HashSet<NodeHandle> holds at most one    *)
(* node per value.                                                         *)

\* the i32 values given to NodeHandle::new
GraphValues == {1, 2, 3}

\* impl PartialEq for NodeHandle
HandleEq(val, a, b) == val[a] = val[b]

\* HashSet::contains
HashContains(val, set, n) == \E m \in set : HandleEq(val, m, n)

\* HashSet::insert: an equal element already present is kept
HashInsert(val, set, n) ==
    IF HashContains(val, set, n) THEN set ELSE set \cup {n}

\* HashSet::remove
HashRemove(val, set, n) == { m \in set : ~HandleEq(val, m, n) }

\* status.get(node), the HashMap being keyed by handles
StatusGet(val, status, n) ==
    IF val[n] \in DOMAIN status THEN status[val[n]] ELSE "Unvisited"

\* status.insert(node.clone(), st)
StatusInsert(val, status, n, st) ==
    [x \in DOMAIN status \cup {val[n]} |->
        IF x = val[n] THEN st ELSE status[x]]

\* fn dfs and its loop over the neighbours.  A HashSet is iterated in an
\* unspecified order: the operators give the set of the results [found,
\* status] of all orders.
RECURSIVE dfs(_, _, _, _, _)
RECURSIVE DfsNeighbors(_, _, _, _, _, _)
dfs(val, edges, subgraph, node, status) ==
    CASE StatusGet(val, status, node) = "Visiting" ->
            {[found |-> TRUE, status |-> status]}
      [] StatusGet(val, status, node) = "Visited" ->
            {[found |-> FALSE, status |-> status]}
      [] OTHER ->
            DfsNeighbors(val, edges, subgraph, node, edges[node],
                         StatusInsert(val, status, node, "Visiting"))

DfsNeighbors(val, edges, subgraph, node, remaining, status) ==
    IF remaining = {}
    THEN {[found |-> FALSE,
           status |-> StatusInsert(val, status, node, "Visited")]}
    ELSE UNION {
            IF ~HashContains(val, subgraph, n)
            THEN DfsNeighbors(val, edges, subgraph, node, remaining \ {n},
                              status)
            ELSE UNION {
                    IF o.found
                    THEN {o}
                    ELSE DfsNeighbors(val, edges, subgraph, node,
                                      remaining \ {n}, o.status)
                    : o \in dfs(val, edges, subgraph, n, status) }
            : n \in remaining }

\* for node in &self.nodes { if !status.contains_key(node) && dfs(..) ...
RECURSIVE DetectLoop(_, _, _, _, _)
DetectLoop(val, edges, subgraph, remaining, status) ==
    IF remaining = {}
    THEN {FALSE}
    ELSE UNION {
            IF val[n] \in DOMAIN status
            THEN DetectLoop(val, edges, subgraph, remaining \ {n}, status)
            ELSE UNION {
                    IF o.found
                    THEN {TRUE}
                    ELSE DetectLoop(val, edges, subgraph, remaining \ {n},
                                    o.status)
                    : o \in dfs(val, edges, subgraph, n, status) }
            : n \in remaining }

\* SubGraph::detect_cycle: the results it can give
detect_cycle(val, edges, subgraph) ==
    DetectLoop(val, edges, subgraph, subgraph, <<>>)

InitGraph ==
    /\ BigIntIdle
    /\ StorageIdle
    /\ FunnelIdle
    /\ ListIdle
    /\ ExercisesIdle
    /\ GraphIdle

notGraph == <<bigintVars, storageVars, funnelVars, listVars, exerciseVars>>

\* NodeHandle::new(value)
NewNode ==
    /\ Len(gval) < MaxNodes
    /\ \E v \in GraphValues :
          /\ gval' = Append(gval, v)
          /\ gedges' = Append(gedges, {})
    /\ gchecked' = FALSE
    /\ UNCHANGED <<subnodes, gresult, notGraph>>

\* a.add_edge(b.clone())
AddEdge ==
    /\ \E a, b \in 1 .. Len(gval) :
          gedges' = [gedges EXCEPT ![a] = HashInsert(gval, @, b)]
    /\ gchecked' = FALSE
    /\ UNCHANGED <<gval, subnodes, gresult, notGraph>>

\* a.remove_edge(&b)
RemoveEdge ==
    /\ \E a, b \in 1 .. Len(gval) :
          gedges' = [gedges EXCEPT ![a] = HashRemove(gval, @, b)]
    /\ gchecked' = FALSE
    /\ UNCHANGED <<gval, subnodes, gresult, notGraph>>

\* a.clear_edges()
ClearEdges ==
    /\ \E a \in 1 .. Len(gval) :
          gedges' = [gedges EXCEPT ![a] = {}]
    /\ gchecked' = FALSE
    /\ UNCHANGED <<gval, subnodes, gresult, notGraph>>

\* subgraph.add_node(a.clone())
AddNode ==
    /\ \E a \in 1 .. Len(gval) :
          subnodes' = HashInsert(gval, subnodes, a)
    /\ gchecked' = FALSE
    /\ UNCHANGED <<gval, gedges, gresult, notGraph>>

\* subgraph.remove_node(&a)
RemoveNode ==
    /\ \E a \in 1 .. Len(gval) :
          subnodes' = HashRemove(gval, subnodes, a)
    /\ gchecked' = FALSE
    /\ UNCHANGED <<gval, gedges, gresult, notGraph>>

\* subgraph.detect_cycle()
DetectCycle ==
    /\ \E r \in detect_cycle(gval, gedges, subnodes) : gresult' = r
    /\ gchecked' = TRUE
    /\ UNCHANGED <<gval, gedges, subnodes, notGraph>>

NextGraph ==
    \/ NewNode
    \/ AddEdge
    \/ RemoveEdge
    \/ ClearEdges
    \/ AddNode
    \/ RemoveNode
    \/ DetectCycle

SpecGraph == InitGraph /\ [][NextGraph]_vars

\* the nodes of the subgraph reached from the nodes in from by one edge
Successors(from) == { m \in subnodes : \E n \in from : m \in gedges[n] }

\* ... and by k edges or fewer, k >= 1
RECURSIVE ReachedWithin(_, _)
ReachedWithin(from, k) ==
    IF k <= 1
    THEN Successors(from)
    ELSE Successors(from) \cup ReachedWithin(Successors(from), k - 1)

\* the graph induced on the nodes of the subgraph has a cycle
HasCycle ==
    \E n \in subnodes : n \in ReachedWithin({n}, Cardinality(subnodes))

\* every node created has its own value
DistinctValues ==
    \A a, b \in 1 .. Len(gval) : gval[a] = gval[b] => a = b

\* C19: detect_cycle returns true iff the graph induced on the nodes in the
\* subgraph has a cycle, also when distinct nodes have the same value.
DetectCycleExact == gchecked => (gresult = HasCycle)

\* detect_cycle is exact as long as the nodes have values of their own
DetectCycleExactDistinct ==
    (gchecked /\ DistinctValues) => (gresult = HasCycle)

-----------------------------------------------------------------------------
(* SinglyLinkedList.  An Option is a sequence of at most one element, a    *)
(* Box<Node> the record of the node's fields.                              *)

ListValues == {1, 2, 3}

\* Node::new
NewListNode(value) == [value |-> value, next |-> <<>>]

\* fn push_front
push_front(hd, value) ==
    IF hd # <<>>
    THEN <<[NewListNode(value) EXCEPT !.next = <<hd[1]>>]>>
    ELSE <<NewListNode(value)>>

\* a push_back that overwrites the last node
RECURSIVE push_back_overwrite(_, _)
push_back_overwrite(hd, value) ==
    IF hd = <<>> \/ hd[1].next = <<>>
    THEN <<NewListNode(value)>>
    ELSE <<[hd[1] EXCEPT !.next = push_back_overwrite(@, value)]>>

\* fn push_back: walk to the first None, put the new node there
RECURSIVE push_back(_, _)
push_back(hd, value) ==
    IF hd # <<>>
    THEN <<[hd[1] EXCEPT !.next = push_back(@, value)]>>
    ELSE <<NewListNode(value)>>

\* fn pop_front: the new head and the Option returned
pop_front(hd) ==
    IF hd = <<>>
    THEN [head |-> <<>>, ret |-> <<>>]
    ELSE [head |-> hd[1].next, ret |-> <<hd[1].value>>]

\* the while loop of pop_back, entered with two nodes or more
RECURSIVE PopBackLoop(_)
PopBackLoop(curr) ==
    IF curr[1].next[1].next = <<>>
    THEN [head |-> <<[curr[1] EXCEPT !.next = <<>>]>>,
          ret |-> <<curr[1].next[1].value>>]
    ELSE LET rest == PopBackLoop(curr[1].next)
         IN  [head |-> <<[curr[1] EXCEPT !.next = rest.head]>>,
              ret |-> rest.ret]

\* fn pop_back
pop_back(hd) ==
    IF hd = <<>>
    THEN [head |-> <<>>, ret |-> <<>>]
    ELSE IF hd[1].next = <<>>
         THEN [head |-> <<>>, ret |-> <<hd[1].value>>]
         ELSE PopBackLoop(hd)

\* fn into_vec
RECURSIVE into_vec(_)
into_vec(hd) ==
    IF hd = <<>> THEN <<>> ELSE <<hd[1].value>> \o into_vec(hd[1].next)

\* fn length
RECURSIVE length(_)
length(hd) ==
    IF hd = <<>> THEN 0 ELSE 1 + length(hd[1].next)

InitList ==
    /\ BigIntIdle
    /\ StorageIdle
    /\ FunnelIdle
    /\ GraphIdle
    /\ ListIdle
    /\ ExercisesIdle

notList == <<bigintVars, storageVars, funnelVars, graphVars, exerciseVars>>

PushFront ==
    /\ length(head) < MaxListLen
    /\ \E v \in ListValues :
          /\ head' = push_front(head, v)
          /\ lref' = <<v>> \o lref
    /\ lbefore' = lref
    /\ lop' = "push_front"
    /\ lret' = <<>>
    /\ UNCHANGED notList

PushBack ==
    /\ length(head) < MaxListLen
    /\ \E v \in ListValues :
          /\ head' = push_back(head, v)
          /\ lref' = Append(lref, v)
    /\ lbefore' = lref
    /\ lop' = "push_back"
    /\ lret' = <<>>
    /\ UNCHANGED notList

PopFront ==
    /\ head' = pop_front(head).head
    /\ lret' = pop_front(head).ret
    /\ lref' = IF lref = <<>> THEN <<>> ELSE Tail(lref)
    /\ lbefore' = lref
    /\ lop' = "pop_front"
    /\ UNCHANGED notList

PopBack ==
    /\ head' = pop_back(head).head
    /\ lret' = pop_back(head).ret
    /\ lref' = IF lref = <<>> THEN <<>> ELSE SubSeq(lref, 1, Len(lref) - 1)
    /\ lbefore' = lref
    /\ lop' = "pop_back"
    /\ UNCHANGED notList

NextList ==
    \/ PushFront
    \/ PushBack
    \/ PopFront
    \/ PopBack

SpecList == InitList /\ [][NextList]_vars

\* C20: after any sequence of pushes and pops from new(), into_vec gives
\* the reference sequence and length its length; a pop returns the element
\* removed from the reference sequence, and None exactly when the list was
\* empty, which it leaves empty.
ListRefinesSequence ==
    /\ into_vec(head) = lref
    /\ length(head) = Len(lref)
    /\ lop = "pop_front" =>
          /\ lret = (IF lbefore = <<>> THEN <<>> ELSE <<Head(lbefore)>>)
          /\ lbefore = <<>> => head = <<>>
    /\ lop = "pop_back" =>
          /\ lret = (IF lbefore = <<>> THEN <<>>
                                      ELSE <<lbefore[Len(lbefore)]>>)
          /\ lbefore = <<>> => head = <<>>

\* C20 witness: pop_back took the last of three different elements
ListRefinesSequenceWitness ==
    /\ lop = "pop_back"
    /\ Len(lbefore) = 3
    /\ lbefore[1] # lbefore[2]
    /\ lbefore[2] # lbefore[3]
    /\ lret = <<lbefore[3]>>
    /\ into_vec(head) = <<lbefore[1], lbefore[2]>>

-----------------------------------------------------------------------------
(* organize.  A command is the sequence of its words, as split_whitespace  *)
(* gives them; the table is a function from the departments present to     *)
(* their sets of persons.                                                  *)

Persons == {"Amir", "Sally"}

Departments == {"Engineering", "Sales"}

\* the commands handed to organize, well formed or not
Commands ==
    { <<"Add", p, "to", d>> : p \in Persons, d \in Departments }
    \cup { <<"Remove", p, "from", d>> : p \in Persons, d \in Departments }
    \cup { <<"Move", p, "from", d[1], "to", d[2]>> :
              p \in Persons, d \in Departments \X Departments }
    \cup { <<>>,
           <<"Add", "Amir", "Engineering">>,
           <<"Hire", "Amir", "to", "Sales">>,
           <<"Add", "Amir", "from", "Sales">>,
           <<"Remove", "Amir", "to", "Sales">>,
           <<"Move", "Amir", "from", "Sales">>,
           <<"Move", "Amir", "to", "Sales", "from", "Engineering">> }

\* ["Add", person, "to", department]
IsAdd(part) == Len(part) = 4 /\ part[1] = "Add" /\ part[3] = "to"

\* ["Remove", person, "from", department]
IsRemove(part) == Len(part) = 4 /\ part[1] = "Remove" /\ part[3] = "from"

\* ["Move", person, "from", department_from, "to", department_to]
IsMove(part) ==
    Len(part) = 6 /\ part[1] = "Move" /\ part[3] = "from" /\ part[5] = "to"

\* ret.entry(department).or_default().insert(person)
EntryInsert(table, department, person) ==
    [d \in DOMAIN table \cup {department} |->
        IF d = department
        THEN (IF d \in DOMAIN table THEN table[d] ELSE {}) \cup {person}
        ELSE table[d]]

\* set.remove(person); if set.is_empty() { ret.remove(department); }
\* for a department of the table
SetRemove(table, department, person) ==
    IF table[department] \ {person} = {}
    THEN [d \in DOMAIN table \ {department} |-> table[d]]
    ELSE [table EXCEPT ![department] = @ \ {person}]

\* one turn of the loop of organize: the match on the words of the command
OrganizeCommand(table, part) ==
    CASE IsAdd(part) -> EntryInsert(table, part[4], part[2])
      [] IsRemove(part) ->
            IF part[4] \in DOMAIN table
            THEN SetRemove(table, part[4], part[2])
            ELSE table
      [] IsMove(part) ->
            IF part[4] \in DOMAIN table
            THEN EntryInsert(SetRemove(table, part[4], part[2]),
                             part[6], part[2])
            ELSE table
      [] OTHER -> table

InitOrganize ==
    /\ BigIntIdle
    /\ StorageIdle
    /\ FunnelIdle
    /\ GraphIdle
    /\ ListIdle
    /\ ExercisesIdle

notOrganize ==
    <<bigintVars, storageVars, funnelVars, graphVars, listVars,
      divisorsVars, pythagoreanVars, rationalVars>>

\* for command in commands { ... }
OrganizeStep ==
    /\ org_n < MaxCommands
    /\ \E part \in Commands :
          /\ org_cmd' = part
          /\ org' = OrganizeCommand(org, part)
    /\ org_before' = org
    /\ org_n' = org_n + 1
    /\ UNCHANGED notOrganize

NextOrganize == OrganizeStep

SpecOrganize == InitOrganize /\ [][NextOrganize]_vars

\* the person of a Remove or Move command is in its source department
InSource(table, part) ==
    part[4] \in DOMAIN table /\ part[2] \in table[part[4]]

\* a command that can be executed on a table
Executable(table, part) ==
    \/ IsAdd(part)
    \/ IsRemove(part) /\ InSource(table, part)
    \/ IsMove(part) /\ InSource(table, part)

\* C21: a command that is not executable (malformed, or a Remove or Move
\* of a person who is not in the source department) leaves the table as it
\* was.
OrganizeIgnoresNotExecutable ==
    (org_n > 0 /\ ~Executable(org_before, org_cmd)) => org = org_before

\* the same for all commands but Move
OrganizeIgnoresNotExecutableButMove ==
    (org_n > 0 /\ ~IsMove(org_cmd) /\ ~Executable(org_before, org_cmd)) =>
        org = org_before

-----------------------------------------------------------------------------
(* Divisors.  (n as f64).sqrt() is exact enough for every n below 2^52:    *)
(* its floor is the integer square root of n, and it is a whole number     *)
(* exactly when n is a square.                                             *)

\* sqrt.floor() as u64
FloorSqrt(n) == CHOOSE r \in 0 .. n : r * r <= n /\ (r + 1) * (r + 1) > n

\* sqrt == sqrt.trunc()
SqrtIsWhole(n) == FloorSqrt(n) * FloorSqrt(n) = n

\* Vec::pop, the vector that is left
PopVec(vec) == IF vec = <<>> THEN <<>> ELSE SubSeq(vec, 1, Len(vec) - 1)

\* the while loop of next: the first divisor from curr up to the limit, or
\* the limit passed
RECURSIVE DivisorsScan(_, _, _)
DivisorsScan(n, curr, limit) ==
    IF curr <= limit
    THEN IF n % curr = 0
         THEN [found |-> TRUE, curr |-> curr]
         ELSE DivisorsScan(n, curr + 1, limit)
    ELSE [found |-> FALSE, curr |-> curr]

\* Divisors::next: the fields after the call and the Option returned
divisors_next(n, curr, factor) ==
    LET scan == DivisorsScan(n, curr, FloorSqrt(n))
        popped == IF SqrtIsWhole(n) THEN PopVec(factor) ELSE factor
    IN  IF scan.found
        THEN [curr |-> scan.curr + 1,
              factor |-> Append(factor, scan.curr),
              ret |-> <<scan.curr>>]
        ELSE IF popped # <<>>
             THEN [curr |-> scan.curr,
                   factor |-> PopVec(popped),
                   ret |-> <<n \div popped[Len(popped)]>>]
             ELSE [curr |-> scan.curr, factor |-> popped, ret |-> <<>>]

\* divisors(n)
InitDivisors ==
    /\ BigIntIdle
    /\ StorageIdle
    /\ FunnelIdle
    /\ GraphIdle
    /\ ListIdle
    /\ OrganizeIdle
    /\ PythagoreanIdle
    /\ RationalIdle
    /\ div_n \in 1 .. MaxDivisorsN
    /\ div_curr = 1
    /\ div_factor = <<>>
    /\ div_out = <<>>
    /\ div_none = FALSE

notDivisors ==
    <<bigintVars, storageVars, funnelVars, graphVars, listVars,
      organizeVars, pythagoreanVars, rationalVars>>

\* one call of next, until it returns None
DivisorsNext ==
    /\ ~div_none
    /\ LET r == divisors_next(div_n, div_curr, div_factor)
       IN  /\ div_curr' = r.curr
           /\ div_factor' = r.factor
           /\ div_out' = div_out \o r.ret
           /\ div_none' = (r.ret = <<>>)
    /\ UNCHANGED <<div_n, notDivisors>>

NextDivisors == DivisorsNext

SpecDivisors == InitDivisors /\ [][NextDivisors]_vars

\* what next yielded are divisors of n, in strictly increasing order
YieldedIncreasingDivisors ==
    /\ \A k \in 1 .. Len(div_out) : div_out[k] > 0 /\ div_n % div_out[k] = 0
    /\ \A k \in 1 .. Len(div_out) - 1 : div_out[k] < div_out[k + 1]

\* when next returns None every divisor of n was yielded
YieldedAllDivisors ==
    div_none =>
        \A d \in 1 .. div_n :
           div_n % d = 0 => \E k \in 1 .. Len(div_out) : div_out[k] = d

\* C22: divisors(n) yields exactly the divisors of n, each once, in
\* strictly increasing order, and then None, perfect squares included.
DivisorsExact == YieldedIncreasingDivisors /\ YieldedAllDivisors

\* the same for the n that are not squares of a number above 3
DivisorsExactSmallRoot ==
    (~SqrtIsWhole(div_n) \/ FloorSqrt(div_n) <= 3) => DivisorsExact

-----------------------------------------------------------------------------
(* Pythagorean.  The heap holds Reverse((c, a, b)); no two pushes are      *)
(* equal, so it is the set of its elements and pop takes the least one.    *)

\* num::integer::gcd on unsigned numbers
RECURSIVE gcd(_, _)
gcd(x, y) == IF y = 0 THEN x ELSE gcd(y, x % y)

\* the order of (u64, u64, u64)
TripleLess(s, t) ==
    \/ s[1] < t[1]
    \/ s[1] = t[1] /\ s[2] < t[2]
    \/ s[1] = t[1] /\ s[2] = t[2] /\ s[3] < t[3]

\* self.heap.pop() of a heap of Reverse: the least triple
HeapPop(heap) == CHOOSE t \in heap : \A s \in heap \ {t} : TripleLess(t, s)

\* the triple pushed for m and n
PushedTriple(m, n) ==
    LET a == m * m - n * n
        b == 2 * m * n
        c == m * m + n
    IN  IF a < b THEN <<c, a, b>> ELSE <<c, b, a>>

\* while self.n < self.m { ... self.n += 1; }: the heap after the loop,
\* which pushes a triple for every value of self.n from n to m - 1 that
\* passes the test
PushLoop(m, n, heap) ==
    heap \cup { PushedTriple(m, k) :
                  k \in { x \in n .. m - 1 :
                             (m - x) % 2 = 1 /\ gcd(m, x) = 1 } }

\* Pythagorean::next: the fields after the call and the triple returned
RECURSIVE pythagorean_next(_, _, _)
pythagorean_next(m, n, heap) ==
    LET pushed == PushLoop(m, n, heap)
    IN  IF pushed # {}
        THEN [m |-> m + 1, n |-> 1,
              heap |-> pushed \ {HeapPop(pushed)},
              ret |-> HeapPop(pushed)]
        ELSE pythagorean_next(m + 1, 1, pushed)

\* pythagorean()
InitPythagorean ==
    /\ BigIntIdle
    /\ StorageIdle
    /\ FunnelIdle
    /\ GraphIdle
    /\ ListIdle
    /\ ExercisesIdle

notPythagorean ==
    <<bigintVars, storageVars, funnelVars, graphVars, listVars,
      organizeVars, divisorsVars, rationalVars>>

\* one call of next
PythagoreanNext ==
    /\ Len(py_out) < MaxTriples
    /\ LET r == pythagorean_next(py_m, py_n, py_heap)
       IN  /\ py_m' = r.m
           /\ py_n' = r.n
           /\ py_heap' = r.heap
           /\ py_out' = Append(py_out, r.ret)
    /\ UNCHANGED notPythagorean

NextPythagorean == PythagoreanNext

SpecPythagorean == InitPythagorean /\ [][NextPythagorean]_vars

\* C23: every triple (a, b, c) yielded has a*a + b*b = c*c, a < b and
\* gcd(a, b) = 1; the triples are pairwise distinct and come in increasing
\* order of c.
PythagoreanPrimitiveOrdered ==
    /\ \A k \in 1 .. Len(py_out) :
          LET a == py_out[k][1]
              b == py_out[k][2]
              c == py_out[k][3]
          IN  a * a + b * b = c * c /\ a < b /\ gcd(a, b) = 1
    /\ \A j, k \in 1 .. Len(py_out) : py_out[j] = py_out[k] => j = k
    /\ \A k \in 1 .. Len(py_out) - 1 : py_out[k][3] <= py_out[k + 1][3]

\* the yielded tuples read as (c, a, b): the legs are ordered and coprime
\* and the tuples are pairwise distinct
YieldedLegs ==
    /\ \A k \in 1 .. Len(py_out) :
          py_out[k][2] < py_out[k][3] /\ gcd(py_out[k][2], py_out[k][3]) = 1
    /\ \A j, k \in 1 .. Len(py_out) : py_out[j] = py_out[k] => j = k

\* the yielded tuples read as (c, a, b): a*a + b*b = c*c
YieldedHypotenuse ==
    \A k \in 1 .. Len(py_out) :
       py_out[k][2] * py_out[k][2] + py_out[k][3] * py_out[k][3]
          = py_out[k][1] * py_out[k][1]

\* the yielded tuples read as (c, a, b): c does not decrease
YieldedInOrder ==
    \A k \in 1 .. Len(py_out) - 1 : py_out[k][1] <= py_out[k + 1][1]

-----------------------------------------------------------------------------
(* Rational.  The operands are small, so no isize operation overflows.     *)

\* Rational::new
Rational(numerator, denominator) ==
    [numerator |-> numerator, denominator |-> denominator]

ZERO == Rational(0, 0)

ONE == Rational(1, 1)

MINUS_ONE == Rational(-1, 1)

Abs(x) == IF x < 0 THEN -x ELSE x

\* num::integer::gcd on isize: never negative
gcd_signed(x, y) == gcd(Abs(x), Abs(y))

\* the / of isize, which rounds towards zero, for a divisor above zero
TruncDiv(x, y) == IF x < 0 THEN -((-x) \div y) ELSE x \div y

\* numerator /= gcd; denominator /= gcd; then the change of sign of mul
ReduceMul(numerator, denominator) ==
    LET g == gcd_signed(numerator, denominator)
        n == TruncDiv(numerator, g)
        d == TruncDiv(denominator, g)
    IN  IF d < 0 THEN Rational(-n, -d) ELSE Rational(n, d)

\* the same in add, where the denominator is set to -numerator after the
\* numerator has changed its sign
ReduceAdd(numerator, denominator) ==
    LET g == gcd_signed(numerator, denominator)
        n == TruncDiv(numerator, g)
        d == TruncDiv(denominator, g)
    IN  IF d < 0 THEN Rational(-n, -(-n)) ELSE Rational(n, d)

\* impl Add for Rational
rat_add(l, r) ==
    IF l = ZERO
    THEN r
    ELSE IF r = ZERO
         THEN l
         ELSE ReduceAdd(l.numerator * r.denominator
                           + l.denominator * r.numerator,
                        l.denominator * r.denominator)

\* impl Mul for Rational
rat_mul(l, r) ==
    IF l = ZERO \/ r = ZERO
    THEN ZERO
    ELSE ReduceMul(l.numerator * r.numerator, l.denominator * r.denominator)

\* impl Sub for Rational
rat_sub(l, r) == rat_add(l, rat_mul(r, MINUS_ONE))

\* impl Div for Rational, for a divisor that is not ZERO
rat_div(l, r) == rat_mul(l, Rational(r.denominator, r.numerator))

\* the normalized operands: ZERO, and the fractions in lowest terms
RationalOperands ==
    {ZERO} \cup
    { q \in [numerator : -MaxNumerator .. MaxNumerator,
             denominator : 1 .. MaxDenominator] :
         q.numerator # 0 /\ gcd_signed(q.numerator, q.denominator) = 1 }

InitRational ==
    /\ BigIntIdle
    /\ StorageIdle
    /\ FunnelIdle
    /\ GraphIdle
    /\ ListIdle
    /\ ExercisesIdle

notRational ==
    <<bigintVars, storageVars, funnelVars, graphVars, listVars,
      organizeVars, divisorsVars, pythagoreanVars>>

RationalCall(name, l, r, value) ==
    /\ rat_lhs' = l
    /\ rat_rhs' = r
    /\ rat_op' = name
    /\ rat_ret' = value
    /\ rat_panicked' = FALSE
    /\ UNCHANGED notRational

RationalAdd ==
    \E l, r \in RationalOperands : RationalCall("add", l, r, rat_add(l, r))

RationalMul ==
    \E l, r \in RationalOperands : RationalCall("mul", l, r, rat_mul(l, r))

RationalSub ==
    \E l, r \in RationalOperands : RationalCall("sub", l, r, rat_sub(l, r))

\* l / r: panic!("devide by zero") for r == ZERO
RationalDiv ==
    \E l, r \in RationalOperands :
       IF r = ZERO
       THEN /\ rat_lhs' = l
            /\ rat_rhs' = r
            /\ rat_op' = "div"
            /\ rat_ret' = ZERO
            /\ rat_panicked' = TRUE
            /\ UNCHANGED notRational
       ELSE RationalCall("div", l, r, rat_div(l, r))

NextRational ==
    \/ RationalAdd
    \/ RationalMul
    \/ RationalSub
    \/ RationalDiv

SpecRational == InitRational /\ [][NextRational]_vars

\* a normalized Rational: ZERO, or a denominator above zero that is
\* coprime to a numerator that is not zero
Normalized(q) ==
    \/ q = ZERO
    \/ /\ q.denominator > 0
       /\ q.numerator # 0
       /\ gcd_signed(q.numerator, q.denominator) = 1

\* C24: for normalized operands the results of +, -, * and / by a divisor
\* that is not zero are normalized, a result of value zero being ZERO.
RationalNormalized ==
    (rat_op # "none" /\ ~rat_panicked) => Normalized(rat_ret)

\* the results that are not of value zero are normalized, those of * and /
\* always
RationalNormalizedNonZero ==
    (rat_op # "none" /\ ~rat_panicked) =>
        \/ Normalized(rat_ret)
        \/ rat_op \in {"add", "sub"} /\ rat_ret = Rational(0, 1)

-----------------------------------------------------------------------------
(* BigInt: the helper methods and the structure of add and sub.            *)

\* the word that extends a carrier
ExtensionWord(x) == IF SignBit(x[1]) THEN U32_MAX ELSE U32_ZERO

\* C25: sign_extension(x, n) has max(n, Len(x)) words: copies of the
\* extension word of x followed by the words of x; it removes no word when
\* n < Len(x) and has the value of x.
SignExtensionShape ==
    (op = "sign_extension" /\ ~panicked) =>
        /\ Len(ret) = Max(ext_len, Len(lhs))
        /\ \A i \in 1 .. Len(ret) - Len(lhs) : ret[i] = ExtensionWord(lhs)
        /\ SubSeq(ret, Len(ret) - Len(lhs) + 1, Len(ret)) = lhs
        /\ ext_len < Len(lhs) => ret = lhs
        /\ PEq(Value(ret), Value(lhs))

\* C25 witness: a negative two-word carrier extended to three words
SignExtensionShapeWitness ==
    /\ op = "sign_extension"
    /\ Len(lhs) = 2
    /\ Negative(lhs)
    /\ lhs[1] # U32_MAX
    /\ ext_len = 3
    /\ ret = <<U32_MAX>> \o lhs

\* the words read as an unsigned number
Unsigned(x) ==
    LET n == Len(x)
    IN  [k \in 1 .. 2 * n |->
            LET word == x[n - ((k - 1) \div 2)]
            IN  IF k % 2 = 1 THEN word[2] ELSE word[1]]

\* 2^(32 * n) = Half^(2n)
PowerOfWidth(n) == [k \in 1 .. 2 * n + 1 |-> IF k = 2 * n + 1 THEN 1 ELSE 0]

\* C26: two_complement(x) has the word count n of x and the unsigned value
\* (2^(32n) - unsigned(x)) mod 2^(32n); it has the value -value(x) unless x
\* is the minimum of its width, which it returns unchanged, as it does zero.
TwoComplementNegates ==
    (op = "two_complement" /\ ~panicked) =>
        /\ Len(ret) = Len(lhs)
        /\ LET sum == PAdd(Unsigned(ret), Unsigned(lhs))
           IN  IF PIsZero(Unsigned(lhs))
               THEN PIsZero(Unsigned(ret))
               ELSE PEq(sum, PowerOfWidth(Len(lhs)))
        /\ ~IsMinimum(lhs) => PEq(Value(ret), PNeg(Value(lhs)))
        /\ IsMinimum(lhs) => ret = lhs
        /\ PIsZero(Value(lhs)) => ret = lhs

\* C26 witness: the negation of 2^32 carries from the low word into the
\* high word
TwoComplementNegatesWitness ==
    /\ op = "two_complement"
    /\ lhs = <<W(0, 1), U32_ZERO>>
    /\ ret = <<U32_MAX, U32_ZERO>>

\* the raw sum of add: the words the loop leaves, the final carry dropped
RawSum(a, b) ==
    AddLoop(sign_extension(a, Max(Len(a), Len(b))),
            sign_extension(b, Max(Len(a), Len(b))),
            Max(Len(a), Len(b)), 0, <<>>)

\* the raw sum after the overflow check of add
Checked(a, b) == Overflow(RawSum(a, b), SignBit(a[1]), SignBit(b[1]))

\* C27: for operands of different signs the raw sum has the value
\* value(a) + value(b), no word is prepended and the result has at most
\* max(Len(a), Len(b)) words; a word is prepended only when the operands
\* have one sign and the raw sum has the other.
AddMixedSigns ==
    (op = "add" /\ ~panicked) =>
        /\ ret = truncate(Checked(lhs, rhs))
        /\ Negative(lhs) # Negative(rhs) =>
              /\ PEq(Value(RawSum(lhs, rhs)), PAdd(Value(lhs), Value(rhs)))
              /\ Checked(lhs, rhs) = RawSum(lhs, rhs)
              /\ Len(ret) <= Max(Len(lhs), Len(rhs))
        /\ Checked(lhs, rhs) # RawSum(lhs, rhs) =>
              /\ Negative(lhs) = Negative(rhs)
              /\ Negative(RawSum(lhs, rhs)) # Negative(lhs)
              /\ Len(Checked(lhs, rhs)) = Len(RawSum(lhs, rhs)) + 1

\* C27 witness: a negative and a positive operand whose raw sum carries
\* out of the leading word
AddMixedSignsWitness ==
    /\ op = "add"
    /\ lhs = <<U32_MAX, W(32768, 0)>>
    /\ rhs = <<W(32767, 65535)>>
    /\ ret = <<U32_MAX>>

\* C28: sub(a, b) is add(a, two_complement(b)), b negated at its own
\* width; unless b is the minimum of its width this is what negating b
\* widened by one word gives, the canonical carrier of value(a) - value(b).
SubNegatesThenAligns ==
    (op = "sub" /\ ~panicked) =>
        /\ ret = add(lhs, two_complement(rhs))
        /\ ~IsMinimum(rhs) =>
              /\ ret = add(lhs, two_complement(sign_extension(rhs,
                                                              Len(rhs) + 1)))
              /\ PEq(Value(ret), PSub(Value(lhs), Value(rhs)))
              /\ Shortest(ret)
        /\ ret # add(lhs, two_complement(sign_extension(rhs, Len(rhs) + 1)))
              => IsMinimum(rhs)

\* C28 witness: a positive two-word carrier minus a negative one-word
\* carrier that is not the minimum
SubNegatesThenAlignsWitness ==
    /\ op = "sub"
    /\ lhs = <<W(32767, 65535), U32_MAX>>
    /\ rhs = <<U32_MAX>>
    /\ ret = <<U32_ZERO, W(32768, 0), U32_ZERO>>

====
